---- MODULE Spec2Model ----
(***************************************************************************)
(* Model of server.js of the public scheme registration portal: the        *)
(* Express route table (register, login, schemes, apply, status, admin     *)
(* list, admin review), the two middleware gates (authenticateToken,       *)
(* isAdmin), the three Mongoose collections (User, Scheme, Application),   *)
(* the two startup paths with their connection retries, and initSchemes.   *)
(*                                                                         *)
(* JSON values of a request body are tagged with their JavaScript type,    *)
(* because the handlers branch on truthiness and bcryptjs throws on        *)
(* non-string arguments.  Time is counted in hours (the token's            *)
(* time-to-live is '24h').  A handler that awaits the database twice       *)
(* (register: findOne then save; review: findById then save) is two        *)
(* steps, so that other requests can run between its read and its write.   *)
(***************************************************************************)
EXTENDS Integers, Sequences, FiniteSets, Bags, TLC

VARIABLES
    users,      \* User collection: set of [id, email, password, role]
    schemes,    \* Scheme collection: set of [id, name]
    apps,       \* Application collection: set of [id, userId, schemeId, formData, status, adminRemarks]
    nextOid,    \* next ObjectId the driver generates
    tokens,     \* tokens issued by /api/login so far (held by clients)
    clock,      \* hours since the process started
    regs,       \* bag of register requests between findOne and save
    revs,       \* bag of review requests between findById and save
    resp,       \* the response sent last
    proc        \* the Node process: startup paths, connection, listener, faults

vars == <<users, schemes, apps, nextOid, tokens, clock, regs, revs, resp, proc>>
store == <<users, schemes, apps>>

(***************************************************************************)
(* Bounds of the model.                                                    *)
(***************************************************************************)
MaxTokens == 2      \* tokens issued in one behaviour
MaxApps == 1        \* applications submitted in one behaviour
MaxRegs == 2        \* register requests in flight at once
MaxRevs == 2        \* review requests in flight at once
MaxClock == 25      \* hours the model lets pass

(***************************************************************************)
(* JavaScript values of a JSON body.                                       *)
(***************************************************************************)
Undefined == [t |-> "undefined", v |-> ""]
Str(s) == [t |-> "string", v |-> s]
Num(s) == [t |-> "number", v |-> s]

\* !x is false: undefined, "" and 0 are falsy
Truthy(x) == x.t # "undefined" /\ x.v # "" /\ ~(x.t = "number" /\ x.v = "0")

(***************************************************************************)
(* bcryptjs, as the handlers use it.  The digest is an abstract one-way    *)
(* value determined by the salt and the password; hash and compare reject  *)
(* a non-string password ("Illegal arguments").                            *)
(***************************************************************************)
BcryptCost == 10

\* bcrypt.genSalt: a fresh random salt for every hash; the freshness is what
\* the model keeps, by numbering the salts with the counter of generated ids
GenSalt == nextOid

BcryptThrows(pw) == pw.t # "string"

BcryptHash(pw, salt) ==
    [cost |-> BcryptCost, salt |-> salt, digest |-> <<salt, pw.v>>]

BcryptCompare(pw, hash) == hash.digest = <<hash.salt, pw.v>>

(***************************************************************************)
(* jsonwebtoken: HS256 over the payload with the process-wide secret.      *)
(* The signature is an abstract MAC, a value determined by key and         *)
(* payload.                                                                *)
(***************************************************************************)
JWT_SECRET == "your_jwt_secret"
TokenTTL == 24

NoPayload == [id |-> 0, role |-> "", email |-> "", iat |-> 0, exp |-> 0]
JwtSign(payload, key) == [payload |-> payload, sig |-> <<key, payload>>]
NoJwt == [payload |-> NoPayload, sig |-> <<"", NoPayload>>]

\* jwt.verify: the signature must match and the clock must be before exp
JwtVerify(jwt, key, now) ==
    /\ jwt # NoJwt
    /\ jwt.sig = <<key, jwt.payload>>
    /\ now < jwt.payload.exp

(***************************************************************************)
(* Responses.                                                              *)
(***************************************************************************)
Reply(route, status, message) ==
    [route |-> route, status |-> status, message |-> message,
     token |-> NoJwt, role |-> "", email |-> "", value |-> "", id |-> 0]

NoReply == Reply("", 0, "")

(***************************************************************************)
(* The Node process.  server.js starts the application twice: startServer()*)
(* (path 1) and connectToMongoDB().then(...) (path 2) run concurrently,    *)
(* each with its own retry loop over the one mongoose connection.          *)
(*   db          persistence can be reached now                            *)
(*   readyState  mongoose.connection.readyState                            *)
(*   owner       the path whose connect established the connection, 0 none *)
(*   connected   some connection attempt has succeeded since the start     *)
(*   listens     calls of app.listen so far                                *)
(*   exited      the process has terminated                                *)
(*   hung        requests that were received and will never be answered    *)
(*   pc, retry   position and retryCount of each startup path              *)
(*   seeded      a call of initSchemes() has settled                       *)
(*   seeding     calls of initSchemes() whose countDocuments answered 0    *)
(*               and whose insertMany is still to come                     *)
(***************************************************************************)
Disconnected == 0
Connected == 1
maxRetries == 3
Paths == {1, 2}

\* the process when a start with the database reachable has run to its end
\* and is alive: both paths connected at their first attempt and both have
\* called app.listen
Serving ==
    [db |-> TRUE, readyState |-> Connected, owner |-> 1, connected |-> TRUE,
     listens |-> 2, exited |-> FALSE, hung |-> 0,
     pc |-> <<"done", "done">>, retry |-> <<0, 0>>,
     seeded |-> TRUE, seeding |-> 0]

(***************************************************************************)
(* User collection (userSchema).                                           *)
(***************************************************************************)
RoleEnum == {"citizen", "admin"}

\* User.findOne({ email })
FindUser(email) == {u \in users : u.email = email.v}

\* a register that drops the requested role
RoleIgnored(role) == "citizen"

\* role: role || 'citizen'
RoleOrDefault(role) == IF Truthy(role) THEN role.v ELSE "citizen"

\* the unique index on email rejects a second document with the same email
UniqueIndexRejects(email) == FindUser(email) # {}

(***************************************************************************)
(* POST /api/register                                                      *)
(***************************************************************************)
\* validation and User.findOne, up to the first await that can be overtaken
RegisterFind(body) ==
    /\ UNCHANGED <<users, schemes, apps, nextOid, tokens, clock, revs, proc>>
    /\ IF ~Truthy(body.email) \/ ~Truthy(body.password)
       THEN /\ resp' = Reply("register", 400, "Email and password are required")
            /\ UNCHANGED regs
       ELSE IF FindUser(body.email) # {}
       THEN /\ resp' = Reply("register", 400, "User already exists")
            /\ UNCHANGED regs
       ELSE /\ BagCardinality(regs) < MaxRegs
            /\ regs' = regs (+) SetToBag({body})
            /\ UNCHANGED resp

RegisterError == Reply("register", 500, "Error registering user")

\* bcrypt.hash, new User, user.save and the response
RegisterSave(body) ==
    /\ BagIn(body, regs)
    /\ regs' = regs (-) SetToBag({body})
    /\ UNCHANGED <<schemes, apps, tokens, clock, revs, proc>>
    /\ IF BcryptThrows(body.password)
          \/ RoleOrDefault(body.role) \notin RoleEnum
          \/ UniqueIndexRejects(body.email)
       THEN /\ resp' = RegisterError
            /\ UNCHANGED <<users, nextOid>>
       ELSE /\ users' = users \cup
                   {[id |-> nextOid, email |-> body.email.v,
                     password |-> BcryptHash(body.password, GenSalt),
                     role |-> RoleOrDefault(body.role)]}
            /\ nextOid' = nextOid + 1
            /\ resp' = [Reply("register", 201, "User registered successfully")
                           EXCEPT !.id = nextOid]

(***************************************************************************)
(* POST /api/login                                                         *)
(***************************************************************************)
InvalidCredentials == Reply("login", 401, "Invalid email or password")

\* a token that lives one hour
LoginTokenOneHour(user) ==
    JwtSign([id |-> user.id, role |-> user.role, email |-> user.email,
             iat |-> clock, exp |-> clock + 1], JWT_SECRET)

\* jwt.sign adds iat (now) and exp (now + expiresIn) to the payload
LoginToken(user) ==
    JwtSign([id |-> user.id, role |-> user.role, email |-> user.email,
             iat |-> clock, exp |-> clock + TokenTTL], JWT_SECRET)

\* the response of the handler, from the collection and the clock as they are
LoginResult(body) ==
    IF ~Truthy(body.email) \/ ~Truthy(body.password)
    THEN Reply("login", 400, "Email and password are required")
    ELSE IF FindUser(body.email) = {}
    THEN InvalidCredentials
    ELSE LET user == CHOOSE u \in FindUser(body.email) : TRUE IN
         IF BcryptThrows(body.password)
         THEN Reply("login", 500, "Error during login")
         ELSE IF ~BcryptCompare(body.password, user.password)
         THEN InvalidCredentials
         ELSE [Reply("login", 200, "Login successful")
                  EXCEPT !.token = LoginToken(user),
                         !.role = user.role,
                         !.email = user.email]

Login(body) ==
    /\ UNCHANGED <<users, schemes, apps, nextOid, clock, regs, revs, proc>>
    /\ resp' = LoginResult(body)
    /\ IF LoginResult(body).status = 200
       THEN /\ LoginResult(body).token \in tokens \/ Cardinality(tokens) < MaxTokens
            /\ tokens' = tokens \cup {LoginResult(body).token}
       ELSE UNCHANGED tokens

(***************************************************************************)
(* Time.                                                                   *)
(***************************************************************************)
Tick(d) ==
    /\ clock + d <= MaxClock
    /\ clock' = clock + d
    /\ UNCHANGED <<users, schemes, apps, nextOid, tokens, regs, revs, resp, proc>>

(***************************************************************************)
(* Requests of the authentication specification.                           *)
(***************************************************************************)
Emails == {"asha@example.in", "ravi@example.in"}

RegisterBodies ==
    [email : {Str(e) : e \in Emails} \cup {Undefined},
     password : {Str("pw1"), Str("pw2"), Undefined},
     role : {Undefined, Str("citizen"), Str("admin"), Str("guest")}]

LoginBodies ==
    [email : {Str(e) : e \in Emails} \cup {Undefined},
     password : {Str("pw1"), Str("pw2"), Num("7"), Str("")}]

InitEmpty ==
    /\ users = {}
    /\ schemes = {}
    /\ apps = {}
    /\ nextOid = 1
    /\ tokens = {}
    /\ clock = 0
    /\ regs = EmptyBag
    /\ revs = EmptyBag
    /\ resp = NoReply
    /\ proc = Serving

RegisterFindStep == \E body \in RegisterBodies : RegisterFind(body)
RegisterSaveStep == \E body \in RegisterBodies : RegisterSave(body)
LoginStep == \E body \in LoginBodies : Login(body)

NextAuth == RegisterFindStep \/ RegisterSaveStep \/ LoginStep

SpecAuth == InitEmpty /\ [][NextAuth]_vars

(***************************************************************************)
(* Claims about registration and login (checked under SpecAuth).           *)
(***************************************************************************)
RegisteredRole(body) == IF body.role = Undefined THEN "citizen" ELSE body.role.v

SameCredentials(body) == [email |-> body.email, password |-> body.password]

C1_Step ==
    /\ (resp'.route = "register" /\ resp'.status = 201) =>
          \A body \in RegisterBodies :
              RegisterSave(body) =>
                  /\ LoginResult(SameCredentials(body))'.status = 200
                  /\ LoginResult(SameCredentials(body))'.role = RegisteredRole(body)
                  /\ LoginResult(SameCredentials(body))'.token.payload.role
                        = RegisteredRole(body)
                  /\ JwtVerify(LoginResult(SameCredentials(body))'.token,
                               JWT_SECRET, clock')
    /\ users' # users =>
          \A b \in LoginBodies :
              LoginResult(b).status = 200 =>
                  /\ LoginResult(b)'.status = 200
                  /\ LoginResult(b)'.token.payload.role
                        = LoginResult(b).token.payload.role

\* C1: once a register with non-empty email and password and a role that is
\* citizen, admin or unspecified is answered 201, a login with the same email
\* and password is answered 200 with a token that verifies and whose role
\* claim is the registered role (citizen when none was given), in the state
\* right after the register and in every later state.
C1_RegisterThenLogin == [][C1_Step]_vars

\* a login has succeeded for a user registered as admin and for one
\* registered without a role
C1_Witness ==
    /\ resp.route = "login" /\ resp.status = 200
    /\ resp.token.payload.role = "admin"
    /\ \E u \in users : u.role = "citizen" /\ u.email # resp.email

OnePerEmail(us) == \A u, v \in us : u.email = v.email => u = v

ConflictReply == Reply("register", 400, "User already exists")

C2_Step ==
    \A body \in RegisterBodies :
        /\ (RegisterFind(body) /\ Truthy(body.email) /\ Truthy(body.password)
              /\ FindUser(body.email) # {})
           => (resp' = ConflictReply /\ users' = users)
        /\ (RegisterSave(body) /\ FindUser(body.email) # {})
           => (resp' = ConflictReply /\ users' = users)
        /\ OnePerEmail(users')

\* C2: in every interleaving of register requests the user store holds at
\* most one user per email, and a register that reaches the store when its
\* email is already present is answered 400 'User already exists' and leaves
\* the store as it was.
C2_DuplicateIsConflict == [][C2_Step]_vars

\* C3: a login with a registered email that does not succeed is answered
\* with the status and message that the same password gets with an email
\* that is not registered.
C3_FailuresIndistinguishable ==
    [][\A b1 \in LoginBodies :
          (Login(b1) /\ FindUser(b1.email) # {} /\ resp'.status # 200) =>
              \A b2 \in LoginBodies :
                  (Truthy(b2.email) /\ FindUser(b2.email) = {}
                     /\ b2.password = b1.password) =>
                      /\ resp'.status = LoginResult(b2).status
                      /\ resp'.message = LoginResult(b2).message]_vars

(***************************************************************************)
(* The authorization header, already split at spaces                       *)
(* (authHeader.split(' ')).  A word is literal text or an encoded token.   *)
(***************************************************************************)
Lit(s) == [lit |-> s, jwt |-> NoJwt]
Enc(jwt) == [lit |-> "jwt", jwt |-> jwt]
NoWord == Lit("")

NoHeader == [present |-> FALSE, words |-> <<>>]
Header(words) == [present |-> TRUE, words |-> words]
Bearer(jwt) == Header(<<Lit("Bearer"), Enc(jwt)>>)

\* authHeader && authHeader.split(' ')[1]; undefined and '' are both falsy
TokenOf(hdr) ==
    IF hdr.present /\ Len(hdr.words) >= 2 THEN hdr.words[2] ELSE NoWord

\* a gate that decodes the token without verifying it
DecodeOnly(hdr) ==
    IF TokenOf(hdr) = NoWord
    THEN [status |-> 401, message |-> "No token provided", user |-> NoPayload]
    ELSE IF TokenOf(hdr).jwt = NoJwt
    THEN [status |-> 403, message |-> "Invalid token", user |-> NoPayload]
    ELSE [status |-> 200, message |-> "", user |-> TokenOf(hdr).jwt.payload]

\* the gate's outcome: status 200 stands for next() with req.user = user
authenticateToken(hdr) ==
    IF TokenOf(hdr) = NoWord
    THEN [status |-> 401, message |-> "No token provided", user |-> NoPayload]
    ELSE IF ~JwtVerify(TokenOf(hdr).jwt, JWT_SECRET, clock)
    THEN [status |-> 403, message |-> "Invalid token", user |-> NoPayload]
    ELSE [status |-> 200, message |-> "", user |-> TokenOf(hdr).jwt.payload]

\* an admin gate that lets every authenticated caller through
AnyoneIsAdmin(user) == TRUE

\* isAdmin calls next() exactly when req.user.role === 'admin'
isAdmin(user) == user.role = "admin"

\* the middleware chain stops the request before the handler
Rejected(hdr, adminOnly) ==
    \/ authenticateToken(hdr).status # 200
    \/ adminOnly /\ ~isAdmin(authenticateToken(hdr).user)

\* the gates answer without looking at the route
RejectReply(hdr) ==
    IF authenticateToken(hdr).status # 200
    THEN Reply("authenticateToken", authenticateToken(hdr).status,
               authenticateToken(hdr).message)
    ELSE Reply("isAdmin", 403, "Admin access required")

(***************************************************************************)
(* Application collection (applicationSchema).                             *)
(***************************************************************************)
StatusEnum == {"pending", "approved", "rejected"}
Unset == "<unset>"
MalformedOid == -1

\* Application.findById(id); a malformed id makes the query throw
CastError(id) == id = MalformedOid
FindApp(id) == {a \in apps : a.id = id}

\* a submit that builds the document from the whole request body
ApplicationFromBody(oid, user, body) ==
    [id |-> oid,
     userId |-> IF body.userId # 0 THEN body.userId ELSE user.id,
     schemeId |-> body.schemeId, formData |-> body.formData,
     status |-> IF body.status.t = "string" THEN body.status.v ELSE "pending",
     adminRemarks |-> Unset]

\* new Application({ userId: req.user.id, schemeId, formData })
NewApplication(oid, user, body) ==
    [id |-> oid, userId |-> user.id, schemeId |-> body.schemeId,
     formData |-> body.formData, status |-> "pending", adminRemarks |-> Unset]

(***************************************************************************)
(* GET /api/schemes                                                        *)
(***************************************************************************)
ListSchemesReply(hdr) ==
    IF Rejected(hdr, FALSE)
    THEN RejectReply(hdr)
    ELSE [Reply("schemes", 200, "") EXCEPT !.id = Cardinality(schemes)]

ListSchemes(hdr) ==
    /\ UNCHANGED <<users, schemes, apps, nextOid, tokens, clock, regs, revs, proc>>
    /\ resp' = ListSchemesReply(hdr)

(***************************************************************************)
(* POST /api/apply                                                         *)
(***************************************************************************)
ApplyReply(hdr, body) ==
    IF Rejected(hdr, FALSE)
    THEN RejectReply(hdr)
    ELSE IF CastError(body.schemeId)
    THEN Reply("apply", 400, "Error submitting application")
    ELSE [Reply("apply", 200, "") EXCEPT !.id = nextOid]

\* the collection after application.save()
ApplyApps(hdr, body) ==
    IF ApplyReply(hdr, body).status = 200
    THEN apps \cup {NewApplication(nextOid, authenticateToken(hdr).user, body)}
    ELSE apps

Apply(hdr, body) ==
    /\ UNCHANGED <<users, schemes, tokens, clock, regs, revs, proc>>
    /\ ApplyReply(hdr, body).status = 200 => Cardinality(apps) < MaxApps
    /\ resp' = ApplyReply(hdr, body)
    /\ apps' = ApplyApps(hdr, body)
    /\ nextOid' = IF ApplyReply(hdr, body).status = 200 THEN nextOid + 1 ELSE nextOid

(***************************************************************************)
(* GET /api/application/:id/status                                         *)
(***************************************************************************)
StatusResult(hdr, id) ==
    IF Rejected(hdr, FALSE)
    THEN RejectReply(hdr)
    ELSE IF CastError(id)
    THEN Reply("status", 400, "Error checking status")
    ELSE IF FindApp(id) = {}
            \/ (CHOOSE a \in FindApp(id) : TRUE).userId # authenticateToken(hdr).user.id
    THEN Reply("status", 403, "Unauthorized")
    ELSE [Reply("status", 200, "")
             EXCEPT !.value = (CHOOSE a \in FindApp(id) : TRUE).status]

GetStatus(hdr, id) ==
    /\ UNCHANGED <<users, schemes, apps, nextOid, tokens, clock, regs, revs, proc>>
    /\ resp' = StatusResult(hdr, id)

(***************************************************************************)
(* GET /api/admin/applications                                             *)
(***************************************************************************)
AdminListReply(hdr) ==
    IF Rejected(hdr, TRUE)
    THEN RejectReply(hdr)
    ELSE [Reply("applications", 200, "") EXCEPT !.id = Cardinality(apps)]

AdminList(hdr) ==
    /\ UNCHANGED <<users, schemes, apps, nextOid, tokens, clock, regs, revs, proc>>
    /\ resp' = AdminListReply(hdr)

(***************************************************************************)
(* PUT /api/admin/application/:id/review                                   *)
(***************************************************************************)
\* the request as it stands after Application.findById: the path id, the
\* body and the document as loaded
ReviewRequest(hdr, id, body) ==
    [id |-> id, decision |-> body.decision, remarks |-> body.remarks,
     loaded |-> [status |-> (CHOOSE a \in FindApp(id) : TRUE).status,
                 adminRemarks |-> (CHOOSE a \in FindApp(id) : TRUE).adminRemarks],
     by |-> authenticateToken(hdr).user.role]

\* application.save() validates the modified paths: status must be in the enum
ValidationFails(r) ==
    r.decision # r.loaded.status /\ r.decision \notin StatusEnum

\* a save that writes the status and forgets the remarks
SavedStatusOnly(doc, r) ==
    [doc EXCEPT !.status = IF r.decision # r.loaded.status THEN r.decision ELSE @]

\* application.save() sends only the paths whose value differs from the
\* loaded document ($set of the modified paths)
Saved(doc, r) ==
    [doc EXCEPT
       !.status = IF r.decision # r.loaded.status THEN r.decision ELSE @,
       !.adminRemarks = IF r.remarks # r.loaded.adminRemarks THEN r.remarks ELSE @]

\* the response when the gates or findById end the request, NoReply otherwise
ReviewEarlyReply(hdr, id) ==
    IF Rejected(hdr, TRUE) THEN RejectReply(hdr)
    ELSE IF CastError(id) THEN Reply("review", 400, "Error reviewing application")
    ELSE IF FindApp(id) = {} THEN Reply("review", 404, "Application not found")
    ELSE NoReply

\* the response of the assignments and application.save()
SaveReply(r) ==
    IF ValidationFails(r)
    THEN Reply("review", 400, "Error reviewing application")
    ELSE [Reply("review", 200, "Application updated") EXCEPT !.id = r.id]

\* the collection after application.save()
SaveApps(r) ==
    IF ValidationFails(r)
    THEN apps
    ELSE {IF a.id = r.id THEN Saved(a, r) ELSE a : a \in apps}

\* the handler up to the await of findById ...
ReviewFind(hdr, id, body) ==
    /\ UNCHANGED <<users, schemes, apps, nextOid, tokens, clock, regs, proc>>
    /\ IF ReviewEarlyReply(hdr, id) # NoReply
       THEN /\ resp' = ReviewEarlyReply(hdr, id)
            /\ UNCHANGED revs
       ELSE /\ BagCardinality(revs) < MaxRevs
            /\ revs' = revs (+) SetToBag({ReviewRequest(hdr, id, body)})
            /\ UNCHANGED resp

\* ... and from there to the response
ReviewSave(r) ==
    /\ BagIn(r, revs)
    /\ revs' = revs (-) SetToBag({r})
    /\ UNCHANGED <<users, schemes, nextOid, tokens, clock, regs, proc>>
    /\ resp' = SaveReply(r)
    /\ apps' = SaveApps(r)

(***************************************************************************)
(* Requests of the workflow specification: login and the five protected    *)
(* routes, the review handler in its two steps.  The database already      *)
(* holds two registered users (the second a citizen or an admin, the two   *)
(* outcomes of its registration) and the two default schemes; the register *)
(* route itself runs in the authentication specification.                  *)
(***************************************************************************)
SeedUser(oid, email, role) ==
    [id |-> oid, email |-> email,
     password |-> [cost |-> BcryptCost, salt |-> oid, digest |-> <<oid, "pw1">>],
     role |-> role]

SeedUsers(role) ==
    {SeedUser(1, "asha@example.in", "citizen"), SeedUser(2, "ravi@example.in", role)}

DefaultSchemes ==
    {[id |-> 3, name |-> "Welfare Scheme 1"], [id |-> 4, name |-> "Welfare Scheme 2"]}

Init ==
    /\ users \in {SeedUsers(role) : role \in RoleEnum}
    /\ schemes = DefaultSchemes
    /\ apps = {}
    /\ nextOid = 5
    /\ tokens = {}
    /\ clock = 0
    /\ regs = EmptyBag
    /\ revs = EmptyBag
    /\ resp = NoReply
    /\ proc = Serving

SeedLogins ==
    [email : {Str(e) : e \in Emails}, password : {Str("pw1"), Str("pw2")}]

\* what a client can do to a token it holds: raise its own role and lifetime
Tamper(jwt) ==
    [jwt EXCEPT !.payload.role = "admin", !.payload.exp = @ + TokenTTL]

Headers ==
    {NoHeader, Header(<<Lit("Bearer")>>)}
    \cup {Bearer(t) : t \in tokens}
    \cup {Bearer(Tamper(t)) : t \in tokens}

\* the second body also carries fields the handler does not read
ApplyBodies ==
    {[schemeId |-> 3, formData |-> "income:50000", status |-> Undefined, userId |-> 0],
     [schemeId |-> 3, formData |-> "income:50000", status |-> Str("approved"), userId |-> 2],
     [schemeId |-> MalformedOid, formData |-> "income:50000", status |-> Undefined, userId |-> 0]}

\* ids a caller can put in the path: malformed, existing, not existing
PathIds == {MalformedOid, nextOid} \cup {a.id : a \in apps}

ReviewBodies ==
    {[decision |-> "approved", remarks |-> "ok"],
     [decision |-> "rejected", remarks |-> "ineligible"],
     [decision |-> "pending", remarks |-> "ineligible"],
     [decision |-> "maybe", remarks |-> "ok"]}

AnyApplyBody == CHOOSE body \in ApplyBodies : TRUE
AnyReviewBody == CHOOSE body \in ReviewBodies : TRUE

SeedLoginStep == \E body \in SeedLogins : Login(body)
ListSchemesStep == \E hdr \in Headers : ListSchemes(hdr)
AdminListStep == \E hdr \in Headers : AdminList(hdr)
\* a request the gates stop is answered the same whatever its id and body
ApplyStep ==
    \E hdr \in Headers :
        \E body \in IF Rejected(hdr, FALSE) THEN {AnyApplyBody} ELSE ApplyBodies :
            Apply(hdr, body)
GetStatusStep ==
    \E hdr \in Headers :
        \E id \in IF Rejected(hdr, FALSE) THEN {MalformedOid} ELSE PathIds :
            GetStatus(hdr, id)
ReviewFindStep ==
    \E hdr \in Headers :
        \E id \in IF Rejected(hdr, TRUE) THEN {MalformedOid} ELSE PathIds :
            \E body \in IF Rejected(hdr, TRUE) THEN {AnyReviewBody} ELSE ReviewBodies :
                ReviewFind(hdr, id, body)
ReviewSaveStep == \E r \in BagToSet(revs) : ReviewSave(r)
ExpiryStep == Tick(TokenTTL)

Next ==
    \/ SeedLoginStep
    \/ ListSchemesStep
    \/ ApplyStep
    \/ GetStatusStep
    \/ AdminListStep
    \/ ReviewFindStep
    \/ ReviewSaveStep
    \/ ExpiryStep

Spec == Init /\ [][Next]_vars

(***************************************************************************)
(* The expiry specification: logins, one protected route and the clock     *)
(* advancing hour by hour.                                                 *)
(***************************************************************************)
HourStep == Tick(1)
AshaLoginStep == Login([email |-> Str("asha@example.in"), password |-> Str("pw1")])

NextExpiry == AshaLoginStep \/ ListSchemesStep \/ HourStep

SpecExpiry == Init /\ [][NextExpiry]_vars

(***************************************************************************)
(* Claims about the protected routes (checked under Spec).                 *)
(***************************************************************************)
TheApp(id) == CHOOSE a \in FindApp(id) : TRUE
Caller(hdr) == TokenOf(hdr).jwt.payload

\* the header carries a token that login issued and that has not expired
Authentic(hdr) ==
    /\ hdr.present /\ Len(hdr.words) >= 2
    /\ hdr.words[2].jwt \in tokens
    /\ clock < hdr.words[2].jwt.payload.exp

StatusChanged ==
    \E a \in apps : \E a2 \in apps' :
        a2.id = a.id /\ (a2.status # a.status \/ a2.adminRemarks # a.adminRemarks)

\* C4: with a valid token, the status route answers 200 with the
\* application's status when the requester owns the application or is an
\* admin, and 403 'Unauthorized' for every other requester.
C4_OwnerOrAdminReads ==
    [][\A hdr \in Headers : \A id \in PathIds :
          (GetStatus(hdr, id) /\ Authentic(hdr) /\ FindApp(id) # {}) =>
              IF TheApp(id).userId = Caller(hdr).id \/ Caller(hdr).role = "admin"
              THEN resp'.status = 200 /\ resp'.value = TheApp(id).status
              ELSE resp'.status = 403 /\ resp'.message = "Unauthorized"]_vars

AdminRequired == Reply("isAdmin", 403, "Admin access required")

C5_Gate ==
    \A hdr \in Headers :
        Authentic(hdr) =>
            IF Caller(hdr).role = "admin"
            THEN /\ AdminListReply(hdr).route = "applications"
                 /\ AdminListReply(hdr).status = 200
                 /\ \A id \in PathIds :
                      ReviewEarlyReply(hdr, id) \in
                          {NoReply,
                           Reply("review", 400, "Error reviewing application"),
                           Reply("review", 404, "Application not found")}
            ELSE /\ AdminListReply(hdr) = AdminRequired
                 /\ \A id \in PathIds : ReviewEarlyReply(hdr, id) = AdminRequired

C5_Change ==
    /\ BagCardinality(revs') > BagCardinality(revs) =>
          \A hdr \in Headers : \A id \in PathIds : \A body \in ReviewBodies :
              ReviewFind(hdr, id, body) =>
                  /\ Authentic(hdr) /\ Caller(hdr).role = "admin"
                  /\ \E u \in users : u.id = Caller(hdr).id /\ u.role = "admin"
    /\ StatusChanged =>
          \E r \in BagToSet(revs) : r.by = "admin" /\ ReviewSave(r)

\* C5: on the two admin routes a valid token whose role is not admin is
\* answered 403 'Admin access required' and changes no application, a valid
\* admin token reaches the handler, a review gets as far as findById only
\* for a caller holding a valid token of an admin user, and every step that
\* changes an application's status or remarks is the save of such a review.
C5_AdminOnly == [](C5_Gate) /\ [][C5_Change]_vars

\* a citizen was turned away by the admin gate after an admin's review
C5_Witness ==
    /\ resp = AdminRequired
    /\ \E a \in apps : a.status = "approved"
    /\ \E t \in tokens : t.payload.role = "citizen" /\ clock < t.payload.exp

C6_Step ==
    apps' # apps /\ resp'.route = "apply" =>
    \A hdr \in Headers : \A body \in ApplyBodies :
        Apply(hdr, body) =>
            /\ Authentic(hdr)
            /\ \E new \in apps' :
                 /\ apps' = apps \cup {new} /\ new \notin apps
                 /\ new.id = resp'.id /\ resp'.status = 200
                 /\ new.userId = Caller(hdr).id
                 /\ new.status = "pending"
                 /\ StatusResult(hdr, new.id)'.status = 200
                 /\ StatusResult(hdr, new.id)'.value = "pending"
                 /\ \A other \in Headers :
                      (Authentic(other) /\ Caller(other).id # Caller(hdr).id
                         /\ Caller(other).role # "admin") =>
                          /\ StatusResult(other, new.id)'.status = 403
                          /\ StatusResult(other, new.id)'.message = "Unauthorized"

\* C6: every application that POST /api/apply creates is owned by the
\* identity of the caller's token and is pending, whatever else the body
\* carries; right after the submit the submitter's status request answers
\* pending and that of any other non-admin user answers 403 'Unauthorized'.
C6_SubmitIsPendingAndOwned == [][C6_Step]_vars

\* an application was submitted while another citizen holds a valid token
C6_Witness ==
    /\ resp.route = "apply" /\ resp.status = 200
    /\ \E a \in apps :
         /\ a.id = resp.id /\ a.status = "pending"
         /\ \E t \in tokens :
              t.payload.id # a.userId /\ t.payload.role = "citizen"
                /\ clock < t.payload.exp

C7_Step ==
    /\ BagCardinality(revs') < BagCardinality(revs) =>
        \A r \in BagToSet(revs) :
          (ReviewSave(r) /\ r.loaded.status = "pending"
             /\ r.decision \in {"approved", "rejected"}) =>
              /\ resp'.status = 200
              /\ \E a \in apps :
                   /\ a.id = r.id
                   /\ apps' = (apps \ {a}) \cup
                         {[a EXCEPT !.status = r.decision, !.adminRemarks = r.remarks]}
                   /\ \A t \in tokens :
                        (t.payload.id = a.userId /\ clock < t.payload.exp) =>
                            /\ StatusResult(Bearer(t), r.id)'.status = 200
                            /\ StatusResult(Bearer(t), r.id)'.value = r.decision
    /\ resp'.route = "review" /\ resp'.status = 404 =>
          \A hdr \in Headers :
              (Authentic(hdr) /\ Caller(hdr).role = "admin") =>
                  \A id \in PathIds : \A body \in ReviewBodies :
                      (ReviewFind(hdr, id, body) /\ id # MalformedOid /\ FindApp(id) = {}) =>
                          /\ resp' = Reply("review", 404, "Application not found")
                          /\ UNCHANGED <<users, schemes, apps, revs>>

\* C7: the save of an admin's review that found the application pending and
\* carries decision approved or rejected stores the decision as status and
\* the remarks as adminRemarks and leaves the rest of the document alone,
\* after which the owner's status request answers the decision; a review of
\* a well-formed id that matches no application is answered 404
\* 'Application not found' and changes nothing.
C7_ReviewDecides == [][C7_Step]_vars

\* C8: the only status changes an application ever makes are pending to
\* approved and pending to rejected, so an approved or rejected application
\* keeps its status.
C8_TerminalStatus ==
    [][\A a \in apps : \A a2 \in apps' :
          a2.id = a.id =>
              \/ a2.status = a.status
              \/ a.status = "pending" /\ a2.status \in {"approved", "rejected"}]_vars

NoTokenIn(hdr) ==
    ~hdr.present \/ Len(hdr.words) < 2 \/ hdr.words[2] = Lit("")

GateAnswer(hdr) ==
    IF NoTokenIn(hdr)
    THEN Reply("authenticateToken", 401, "No token provided")
    ELSE Reply("authenticateToken", 403, "Invalid token")

C9_Gate ==
    \A hdr \in Headers :
        ~Authentic(hdr) =>
            /\ ListSchemesReply(hdr) = GateAnswer(hdr)
            /\ AdminListReply(hdr) = GateAnswer(hdr)
            /\ \A body \in ApplyBodies :
                 ApplyReply(hdr, body) = GateAnswer(hdr) /\ ApplyApps(hdr, body) = apps
            /\ \A id \in PathIds :
                 /\ StatusResult(hdr, id) = GateAnswer(hdr)
                 /\ ReviewEarlyReply(hdr, id) = GateAnswer(hdr)

C9_NoChange ==
    resp'.route = "authenticateToken" => UNCHANGED <<users, schemes, apps>>

\* C9: on every protected route a request without an authorization header or
\* without a token is answered 401 'No token provided', and a request whose
\* token was not issued by login or has expired is answered 403 'Invalid
\* token'; the answer is the authentication gate's own (neither the admin gate
\* nor the handler has answered) and no user, scheme or application changes.
C9_GateFirst == [](C9_Gate) /\ [][C9_NoChange]_vars

\* the gate has turned a request away while an expired token, a submitted
\* application and an admin exist
C9_Witness ==
    /\ resp = Reply("authenticateToken", 403, "Invalid token")
    /\ \E t \in tokens : t.payload.exp <= clock
    /\ apps # {}

\* C10: a token issued by login passes the authentication gate at every hour
\* before its expiry, issue time plus 24 hours, and is turned away with 403 at
\* every hour after it.
C10_ValidUntilExpiry ==
    \A t \in tokens :
        /\ clock < t.payload.iat + TokenTTL =>
              /\ authenticateToken(Bearer(t)).status = 200
              /\ authenticateToken(Bearer(t)).user = t.payload
        /\ clock > t.payload.iat + TokenTTL =>
              authenticateToken(Bearer(t)).status = 403

\* a token was turned away one hour after its expiry while a younger one
\* is one hour short of its own
C10_Witness ==
    /\ resp = Reply("authenticateToken", 403, "Invalid token")
    /\ \E t \in tokens : clock = t.payload.iat + TokenTTL + 1
    /\ \E t \in tokens : clock = t.payload.iat + TokenTTL - 1

(***************************************************************************)
(* Requests that arrive while persistence cannot be reached.  A Mongoose   *)
(* call then rejects (at once, or when the command buffer times out).  The *)
(* middleware gates and the validation of the body read no collection and  *)
(* answer as before.                                                       *)
(***************************************************************************)
MaxHung == 2        \* requests left unanswered in one behaviour

Up == proc.db /\ ~proc.exited
Down == ~proc.db /\ ~proc.exited

\* the connection to the database is lost / comes back
Outage ==
    /\ Up
    /\ proc' = [proc EXCEPT !.db = FALSE]
    /\ UNCHANGED <<users, schemes, apps, nextOid, tokens, clock, regs, revs, resp>>

Recover ==
    /\ Down
    /\ proc' = [proc EXCEPT !.db = TRUE]
    /\ UNCHANGED <<users, schemes, apps, nextOid, tokens, clock, regs, revs, resp>>

\* a handler whose try/catch answers the rejected call
Caught(reply) ==
    /\ Down
    /\ resp' = reply
    /\ UNCHANGED <<users, schemes, apps, nextOid, tokens, clock, regs, revs, proc>>

\* what becomes of a promise rejected in an async handler without try/catch:
\* Express 4 never hears of it, so the request stays unanswered, and Node
\* either only warns ("hang") or terminates the process on the unhandled
\* rejection ("crash"); Express 5 passes it to the default error handler,
\* which answers 500 with an HTML page ("html500")
UncaughtOutcomes == {"hang", "crash", "html500"}

DefaultErrorReply(route) == [Reply(route, 500, "") EXCEPT !.value = "text/html"]

Uncaught(route, outcome) ==
    /\ Down
    /\ UNCHANGED <<users, schemes, apps, nextOid, tokens, clock, regs, revs>>
    /\ IF outcome = "html500"
       THEN /\ resp' = DefaultErrorReply(route)
            /\ UNCHANGED proc
       ELSE /\ proc.hung < MaxHung
            /\ proc' = [proc EXCEPT !.hung = @ + 1, !.exited = (outcome = "crash")]
            /\ UNCHANGED resp

\* POST /api/register: User.findOne rejects inside the try block
RegisterFaultReply(body) ==
    IF ~Truthy(body.email) \/ ~Truthy(body.password)
    THEN Reply("register", 400, "Email and password are required")
    ELSE RegisterError

RegisterFault(body) == Caught(RegisterFaultReply(body))

\* POST /api/login: User.findOne rejects inside the try block
LoginFaultReply(body) ==
    IF ~Truthy(body.email) \/ ~Truthy(body.password)
    THEN Reply("login", 400, "Email and password are required")
    ELSE Reply("login", 500, "Error during login")

LoginFault(body) == Caught(LoginFaultReply(body))

\* POST /api/apply: application.save rejects inside the try block
ApplyFaultReply(hdr) ==
    IF Rejected(hdr, FALSE)
    THEN RejectReply(hdr)
    ELSE Reply("apply", 400, "Error submitting application")

ApplyFault(hdr) == Caught(ApplyFaultReply(hdr))

\* GET /api/application/:id/status: findById rejects inside the try block
StatusFaultReply(hdr) ==
    IF Rejected(hdr, FALSE)
    THEN RejectReply(hdr)
    ELSE Reply("status", 400, "Error checking status")

GetStatusFault(hdr) == Caught(StatusFaultReply(hdr))

\* PUT /api/admin/application/:id/review: findById rejects inside the try block
ReviewFaultReply(hdr) ==
    IF Rejected(hdr, TRUE)
    THEN RejectReply(hdr)
    ELSE Reply("review", 400, "Error reviewing application")

ReviewFault(hdr) == Caught(ReviewFaultReply(hdr))

\* GET /api/schemes: await Scheme.find() with no try/catch around it
ListSchemesFault(hdr, outcome) ==
    IF Rejected(hdr, FALSE)
    THEN Caught(RejectReply(hdr))
    ELSE Uncaught("schemes", outcome)

\* GET /api/admin/applications: await Application.find() with no try/catch
AdminListFault(hdr, outcome) ==
    IF Rejected(hdr, TRUE)
    THEN Caught(RejectReply(hdr))
    ELSE Uncaught("applications", outcome)

SeedLoginUpStep == Up /\ SeedLoginStep
RegisterFaultStep == \E body \in RegisterBodies : RegisterFault(body)
LoginFaultStep == \E body \in LoginBodies : LoginFault(body)
ApplyFaultStep == \E hdr \in Headers : ApplyFault(hdr)
GetStatusFaultStep == \E hdr \in Headers : GetStatusFault(hdr)
ReviewFaultStep == \E hdr \in Headers : ReviewFault(hdr)
ListSchemesFaultStep ==
    \E hdr \in Headers, outcome \in UncaughtOutcomes : ListSchemesFault(hdr, outcome)
AdminListFaultStep ==
    \E hdr \in Headers, outcome \in UncaughtOutcomes : AdminListFault(hdr, outcome)

NextFault ==
    \/ SeedLoginUpStep
    \/ Outage
    \/ Recover
    \/ RegisterFaultStep
    \/ LoginFaultStep
    \/ ApplyFaultStep
    \/ GetStatusFaultStep
    \/ ReviewFaultStep
    \/ ListSchemesFaultStep
    \/ AdminListFaultStep

SpecFault == Init /\ [][NextFault]_vars

\* C11: while persistence fails, every route answers with a JSON body that
\* carries a message: no request is left unanswered, the process does not
\* terminate, and every error response has a message field.
C11_FailuresCaught ==
    /\ ~proc.exited
    /\ proc.hung = 0
    /\ resp.status >= 400 => resp.message # ""

(***************************************************************************)
(* The review specification: the review handler in its two steps, so that  *)
(* several reviews of one application can be between their findById and    *)
(* their save at once.                                                     *)
(***************************************************************************)
NextReview == SeedLoginStep \/ ApplyStep \/ ReviewFindStep \/ ReviewSaveStep

SpecReview == Init /\ [][NextReview]_vars

\* C12: the stored pair (status, adminRemarks) of an application is the pair
\* it was created with or the (decision, remarks) pair of one review, never
\* the status of one review with the remarks of another.
C12_PairIsOneReview ==
    \A a \in apps :
        \/ a.status = "pending" /\ a.adminRemarks = Unset
        \/ \E body \in ReviewBodies :
               a.status = body.decision /\ a.adminRemarks = body.remarks

(***************************************************************************)
(* initSchemes: countDocuments, and insertMany when the count was 0.  The  *)
(* two awaits are two steps; whatever else runs on the database can run    *)
(* between them.                                                           *)
(***************************************************************************)
MaxRuns == 2        \* runs of initSchemes between their count and their insert

DefaultNames == <<"Welfare Scheme 1", "Welfare Scheme 2">>

\* Scheme.insertMany of the two defaults; the driver numbers the documents
InsertDefaults(catalog, oid) ==
    catalog \cup {[id |-> oid + i - 1, name |-> DefaultNames[i]] : i \in 1..Len(DefaultNames)}

\* a bootstrap that inserts without looking at the count
CountAlwaysZero(catalog) == TRUE

\* count === 0
CountIsZero(catalog) == Cardinality(catalog) = 0

\* const count = await Scheme.countDocuments(); if (count === 0) ...
initSchemesCount ==
    /\ Up
    /\ proc.seeding < MaxRuns
    /\ proc' = IF CountIsZero(schemes)
               THEN [proc EXCEPT !.seeding = @ + 1]
               ELSE [proc EXCEPT !.seeded = TRUE]
    /\ UNCHANGED <<users, schemes, apps, nextOid, tokens, clock, regs, revs, resp>>

\* a rejection inside initSchemes() has no handler: Node warns or terminates
\* the process
RejectionOutcomes == {"warn", "crash"}

\* countDocuments rejects: nothing is connected or the database is lost
initSchemesCountFails(outcome) ==
    /\ Down
    /\ proc' = [proc EXCEPT !.seeded = TRUE, !.exited = (outcome = "crash")]
    /\ UNCHANGED <<users, schemes, apps, nextOid, tokens, clock, regs, revs, resp>>

\* await Scheme.insertMany([...]): the documents are inserted, or the call
\* rejects because the database was lost after the count
initSchemesInsert(outcome) ==
    /\ ~proc.exited
    /\ proc.seeding > 0
    /\ IF proc.db
       THEN /\ schemes' = InsertDefaults(schemes, nextOid)
            /\ nextOid' = nextOid + Len(DefaultNames)
            /\ proc' = [proc EXCEPT !.seeding = @ - 1, !.seeded = TRUE]
       ELSE /\ UNCHANGED <<schemes, nextOid>>
            /\ proc' = [proc EXCEPT !.seeding = @ - 1, !.seeded = TRUE,
                                    !.exited = (outcome = "crash")]
    /\ UNCHANGED <<users, apps, tokens, clock, regs, revs, resp>>

(***************************************************************************)
(* Startup.  Loading server.js runs both startup paths up to their first   *)
(* await, the call of mongoose.connect in the first pass of the retry      *)
(* loop; from there each path advances on its own events (the outcome of   *)
(* its connect, of its ping, its retry timer), in any order.               *)
(***************************************************************************)
Booting(db) ==
    [db |-> db, readyState |-> Disconnected, owner |-> 0, connected |-> FALSE,
     listens |-> 0, exited |-> FALSE, hung |-> 0,
     pc |-> <<"connect", "connect">>, retry |-> <<0, 0>>,
     seeded |-> FALSE, seeding |-> 0]

At(p, label) == ~proc.exited /\ proc.pc[p] = label

Boot(next) ==
    /\ proc' = next
    /\ UNCHANGED <<users, schemes, apps, nextOid, tokens, clock, regs, revs, resp>>

\* top of the retry loop: if (readyState === 1) await mongoose.disconnect()
Attempt(p) ==
    /\ At(p, "try")
    /\ Boot([proc EXCEPT
               !.pc[p] = "connect",
               !.readyState = IF @ = Connected THEN Disconnected ELSE @,
               !.owner = IF proc.readyState = Connected THEN 0 ELSE @])

\* the catch block: count the failure and either give up (return false) or
\* start the two-second timer
Failed(p) ==
    [proc EXCEPT
       !.retry[p] = @ + 1,
       !.pc[p] = IF proc.retry[p] + 1 = maxRetries THEN "false" ELSE "wait"]

\* await mongoose.connect(MONGODB_URI, mongoOptions)
Connect(p) ==
    /\ At(p, "connect")
    /\ IF proc.db
       THEN Boot([proc EXCEPT
                    !.pc[p] = "ping",
                    !.readyState = Connected,
                    !.owner = IF proc.readyState = Connected THEN @ ELSE p])
       ELSE Boot(Failed(p))

\* await mongoose.connection.db.command({ ping: 1 }) and return true; the
\* ping rejects when the database is lost or the other path has
\* disconnected in the meantime
Ping(p) ==
    /\ At(p, "ping")
    /\ IF proc.db /\ proc.readyState = Connected
       THEN Boot([proc EXCEPT !.pc[p] = "true", !.connected = TRUE])
       ELSE Boot(Failed(p))

\* the timer of the retry fires and the loop runs again
RetryTimer(p) ==
    /\ At(p, "wait")
    /\ proc.retry[p] < maxRetries
    /\ Boot([proc EXCEPT !.pc[p] = "try"])

\* a second listener on the port fails with EADDRINUSE: app.listen of
\* Express 4 leaves it an 'error' event nobody handles, which terminates the
\* process ("exit"); app.listen of Express 5 hands it to the listen
\* callback, which ignores it ("callback")
ListenOutcomes == {"exit", "callback"}

\* app.listen(port, '0.0.0.0', ...)
Listening(p, outcome) ==
    [proc EXCEPT !.pc[p] = "done", !.listens = @ + 1,
                 !.exited = (proc.listens > 0 /\ outcome = "exit")]

\* startServer after await connectToMongoDB(): exit on false, listen on true
StartServer(outcome) ==
    IF proc.pc[1] = "false"
    THEN /\ At(1, "false")
         /\ Boot([proc EXCEPT !.pc[1] = "done", !.exited = TRUE])
    ELSE /\ At(1, "true")
         /\ Boot(Listening(1, outcome))

\* connectToMongoDB().then(() => app.listen(...)): the callback does not
\* look at the value the promise resolved with
ThenListen(outcome) ==
    /\ At(2, "true") \/ At(2, "false")
    /\ Boot(Listening(2, outcome))

\* the one call of initSchemes() when the module is loaded; its
\* countDocuments is buffered until a connection is open
InitSchemesBoot ==
    /\ ~proc.seeded
    /\ proc.seeding = 0
    /\ proc.readyState = Connected
    /\ initSchemesCount

\* ... or rejects
InitSchemesTimeout(outcome) ==
    /\ ~proc.seeded
    /\ proc.seeding = 0
    /\ initSchemesCountFails(outcome)

InitBoot ==
    /\ users = {}
    /\ schemes \in {{}, DefaultSchemes}
    /\ apps = {}
    /\ nextOid = 5
    /\ tokens = {}
    /\ clock = 0
    /\ regs = EmptyBag
    /\ revs = EmptyBag
    /\ resp = NoReply
    /\ proc \in {Booting(db) : db \in BOOLEAN}

AttemptStep == \E p \in Paths : Attempt(p)
ConnectStep == \E p \in Paths : Connect(p)
PingStep == \E p \in Paths : Ping(p)
RetryTimerStep == \E p \in Paths : RetryTimer(p)
StartServerStep == \E outcome \in ListenOutcomes : StartServer(outcome)
ThenListenStep == \E outcome \in ListenOutcomes : ThenListen(outcome)
InitSchemesTimeoutStep == \E outcome \in RejectionOutcomes : InitSchemesTimeout(outcome)
InitSchemesInsertStep == \E outcome \in RejectionOutcomes : initSchemesInsert(outcome)

NextBoot ==
    \/ AttemptStep
    \/ ConnectStep
    \/ PingStep
    \/ RetryTimerStep
    \/ StartServerStep
    \/ ThenListenStep
    \/ InitSchemesBoot
    \/ InitSchemesInsertStep
    \/ InitSchemesTimeoutStep
    \/ Outage
    \/ Recover

SpecBoot == InitBoot /\ [][NextBoot]_vars

\* C13: a path of connectToMongoDB gives up after exactly three failed
\* attempts, a start whose attempts all failed ends the process, and as
\* long as no attempt has succeeded the server is not listening.
C13_FatalStartup ==
    /\ \A p \in Paths : proc.retry[p] <= maxRetries
    /\ \A p \in Paths : proc.pc[p] = "false" => proc.retry[p] = maxRetries
    /\ ~proc.connected => proc.listens = 0

\* C15: app.listen is called at most once and only after a connection
\* attempt has succeeded, and a startup path never disconnects a connection
\* that the other path established.
C15_Listens == proc.listens <= 1 /\ (proc.listens > 0 => proc.connected)

C15_NoTeardown ==
    \A p \in Paths :
        proc.pc[p] = "try" /\ proc'.pc[p] = "connect" /\ proc.readyState = Connected
            => proc.owner = p

C15_ListenOnce == [](C15_Listens) /\ [][C15_NoTeardown]_vars

(***************************************************************************)
(* The bootstrap specification: initSchemes() called any number of times   *)
(* on a catalog that is empty or holds any schemes, while the database may *)
(* be lost and come back.                                                  *)
(***************************************************************************)
MaxSchemes == 3     \* schemes in the catalog before the first run

SchemeNames == {"Welfare Scheme 1", "Welfare Scheme 2", "Housing Aid"}

\* the catalogs: any choice of ids, each with a name
Catalogs ==
    UNION {{{[id |-> i, name |-> f[i]] : i \in ids} : f \in [ids -> SchemeNames]}
              : ids \in SUBSET (1..MaxSchemes)}

InitSeed ==
    /\ users = {}
    /\ schemes \in Catalogs
    /\ apps = {}
    /\ nextOid = MaxSchemes + 1
    /\ tokens = {}
    /\ clock = 0
    /\ regs = EmptyBag
    /\ revs = EmptyBag
    /\ resp = NoReply
    /\ proc = [Serving EXCEPT !.seeded = FALSE]

InitSchemesCountFailsStep ==
    \E outcome \in RejectionOutcomes : initSchemesCountFails(outcome)

NextSeed ==
    \/ initSchemesCount
    \/ InitSchemesInsertStep
    \/ InitSchemesCountFailsStep
    \/ Outage
    \/ Recover

SpecSeed == InitSeed /\ [][NextSeed]_vars

\* the two default schemes and nothing else
ExactlyDefaults(catalog) ==
    /\ Cardinality(catalog) = Len(DefaultNames)
    /\ {d.name : d \in catalog} = {DefaultNames[i] : i \in 1..Len(DefaultNames)}

\* C14: when the runs of initSchemes follow one another and the database
\* answers, a run on an empty catalog inserts exactly the two default
\* schemes, and a run on a non-empty catalog changes nothing and inserts
\* nothing, so that the catalog after any number of runs is the catalog
\* after the first.
C14_Step ==
    /\ (schemes = {} /\ proc.seeding = 1 /\ proc.db /\ proc'.seeding = 0)
          => ExactlyDefaults(schemes')
    /\ (schemes # {} /\ proc.seeding = 0)
          => (schemes' = schemes /\ proc'.seeding = 0)

C14_Idempotent == [][C14_Step]_vars

\* a run of initSchemes on an empty catalog has inserted the defaults
C14_Witness ==
    /\ proc.seeded
    /\ proc.seeding = 0
    /\ nextOid = MaxSchemes + 1 + Len(DefaultNames)
    /\ ExactlyDefaults(schemes)

====
